---- MODULE Spec2Model ----
(***************************************************************************)
(* findword: the word store (findword_api.models.Word), the loadwords      *)
(* management command that fills it from a CSV file, and the similarity    *)
(* search over the stored embeddings (findword_api.similarity), with the    *)
(* retrieve and similar endpoints of findword_api.views.WordViewSet; and    *)
(* the two scripts that prepare the CSV file: temp/classify_words.py and   *)
(* temp/generate_embeddings.py.                                            *)
(*                                                                         *)
(* Strings are sequences of character codes, so that str.strip, str.lower  *)
(* and str.upper are computed and not assumed.  A JSON embedding is the    *)
(* list of its elements, each tagged with its JSON type.                   *)
(***************************************************************************)
EXTENDS Integers, Sequences, FiniteSets, TLC

VARIABLES
    store,      \* the Word table: a set of rows [word, is_noun, is_verb, embedding]
    pc,         \* where the loadwords command is: idle, read, loading, done
    opts,       \* the options of the current run and the answer given to input()
    rows,       \* the rows of the CSV file the current run has read
    words_data, \* read_csv_file's result: the parsed rows
    idx,        \* position of load_words_batch in words_data
    stats,      \* Command.stats
    outcome,    \* how the run ended
    report,     \* what print_summary wrote
    store0,     \* the Word table when the current run started
    query,      \* the last similarity call and its arguments
    result,     \* what the last similarity call returned or raised
    classifier, \* classify_words.py: the directory, the files left, word_pos_map
    attacher    \* generate_embeddings.py: the frame, the model and what was returned

\* the variables of the application and those of the two scripts
app == <<store, pc, opts, rows, words_data, idx, stats, outcome, report, store0,
         query, result>>
scripts == <<classifier, attacher>>
vars == <<store, pc, opts, rows, words_data, idx, stats, outcome, report, store0,
          query, result, classifier, attacher>>

(***************************************************************************)
(* Bounds of the model.                                                    *)
(***************************************************************************)
MaxRows == 2
MaxStore == 3
MaxWords == 11
MaxCells == 3

SeqUpTo(S, n) == UNION {[1..k -> S] : k \in 0..n}

(***************************************************************************)
(* Python string methods on sequences of character codes.                  *)
(***************************************************************************)
Whitespace == {9, 10, 13, 32}
Quotes == {34, 39}

LowerChar(c) == IF c \in 65..90 THEN c + 32 ELSE c
UpperChar(c) == IF c \in 97..122 THEN c - 32 ELSE c

Lower(s) == [i \in 1..Len(s) |-> LowerChar(s[i])]
Upper(s) == [i \in 1..Len(s) |-> UpperChar(s[i])]

RECURSIVE LStrip(_, _)
LStrip(s, chars) ==
    IF s # <<>> /\ Head(s) \in chars THEN LStrip(Tail(s), chars) ELSE s

RECURSIVE RStrip(_, _)
RStrip(s, chars) ==
    IF s # <<>> /\ s[Len(s)] \in chars THEN RStrip(SubSeq(s, 1, Len(s) - 1), chars) ELSE s

\* str.strip() and str.strip(chars)
Strip(s) == RStrip(LStrip(s, Whitespace), Whitespace)
StripChars(s, chars) == RStrip(LStrip(s, chars), chars)

\* the strings the model uses
S_a == <<97>>
S_A == <<65>>
S_b == <<98>>
S_c == <<99>>
S_d == <<100>>
S_e == <<101>>
S_Y == <<89>>
S_N == <<78>>
S_yes == <<121, 101, 115>>
S_YES == <<89, 69, 83>>
S_no == <<110, 111>>
S_dog == <<100, 111, 103>>
S_DOG == <<68, 79, 71>>
S_cat == <<99, 97, 116>>
S_run == <<114, 117, 110>>
S_nonexistent == <<110, 111, 110, 101, 120, 105, 115, 116, 101, 110, 116>>
S_noun == <<110, 111, 117, 110>>
S_NOUN == <<78, 79, 85, 78>>
S_verb == <<118, 101, 114, 98>>
S_invalid == <<105, 110, 118, 97, 108, 105, 100>>
S_not_a_number == <<110, 111, 116, 95, 97, 95, 110, 117, 109, 98, 101, 114>>
S_0 == <<48>>
S_2 == <<50>>
S_100 == <<49, 48, 48>>
S_101 == <<49, 48, 49>>
S_0_9 == <<48, 46, 57>>
S_1_5 == <<49, 46, 53>>
S_minus_0_1 == <<45, 48, 46, 49>>

(***************************************************************************)
(* JSON values of the embd column and of Word.embedding.                   *)
(***************************************************************************)
Num(n) == [t |-> "num", v |-> n]
JBool(b) == [t |-> "bool", v |-> IF b THEN 1 ELSE 0]
\* a string element that float() does not accept, such as 'x'
JStr == [t |-> "str", v |-> 0]
\* an integer of the JSON text that is beyond the range of a float
JHuge == [t |-> "huge", v |-> 0]
Nums(s) == [i \in 1..Len(s) |-> Num(s[i])]

JList(elems) == [kind |-> "list", elems |-> elems]
JScalar == [kind |-> "scalar", elems |-> <<>>]
JInvalid == [kind |-> "invalid", elems |-> <<>>]

\* isinstance(x, (int, float)): bool is a subclass of int
IsNumberInstance(x) == x.t \in {"num", "bool", "huge"}

(***************************************************************************)
(* The CSV file.  nfields is the number of fields the line has: DictReader *)
(* fills the missing ones with None.                                       *)
(***************************************************************************)
Row(word, noun, verb, embd) ==
    [nfields |-> 4, word |-> word, noun |-> noun, verb |-> verb, embd |-> embd]

RowValidA == Row(S_a, S_Y, S_N, JList(Nums(<<1, 0>>)))
RowValidUpperA == Row(S_A, <<110>>, <<121>>, JList(Nums(<<0, 1>>)))
RowValidQuotedB == Row(<<32, 39, 98, 39>>, S_Y, S_Y, JList(Nums(<<1, 1>>)))
RowBadFlag == Row(S_b, <<88>>, S_N, JList(Nums(<<1, 0>>)))
RowEmptyEmbd == Row(S_b, S_Y, S_N, JList(<<>>))
RowStrEmbd == Row(S_b, S_Y, S_N, JList(<<Num(1), JStr>>))
RowBoolEmbd == Row(S_b, S_N, S_Y, JList(<<JBool(TRUE), Num(1)>>))
RowShort == [nfields |-> 2, word |-> S_b, noun |-> S_Y, verb |-> <<>>, embd |-> JInvalid]

RowSet == {RowValidA, RowValidUpperA, RowValidQuotedB, RowBoolEmbd, RowBadFlag,
           RowEmptyEmbd, RowStrEmbd, RowShort}

NoFile == [exists |-> FALSE, headers |-> FALSE, rows |-> <<>>]
BadHeaderFile == [exists |-> TRUE, headers |-> FALSE, rows |-> <<>>]
Files == {NoFile, BadHeaderFile}
         \cup {[exists |-> TRUE, headers |-> TRUE, rows |-> r] : r \in SeqUpTo(RowSet, MaxRows)}

(***************************************************************************)
(* Command.parse_csv_row                                                   *)
(***************************************************************************)
NoData == [word |-> <<>>, is_noun |-> FALSE, is_verb |-> FALSE, embedding |-> <<>>]
Parsed(d) == [err |-> "none", data |-> d]
ParseError(e) == [err |-> e, data |-> NoData]

ParseWord(row) == StripChars(Strip(row.word), Quotes)

\* a check of the embedding that accepts every list
EmbeddingErrorMutant(embd) == embd.kind # "list"

EmbeddingError(embd) ==
    \/ embd.kind = "invalid"                                   \* json.JSONDecodeError
    \/ embd.kind # "list"                                      \* "Embedding must be a list"
    \/ embd.elems = <<>>                                       \* "Embedding cannot be empty"
    \/ \E i \in 1..Len(embd.elems) : ~IsNumberInstance(embd.elems[i])

parse_csv_row(row) ==
    IF ParseWord(row) = <<>> THEN ParseError("ValueError")
    ELSE IF row.nfields < 3 THEN ParseError("AttributeError")   \* None.strip()
    ELSE IF Upper(Strip(row.noun)) \notin {S_Y, S_N} THEN ParseError("ValueError")
    ELSE IF Upper(Strip(row.verb)) \notin {S_Y, S_N} THEN ParseError("ValueError")
    ELSE IF row.nfields < 4 THEN ParseError("AttributeError")
    ELSE IF EmbeddingError(row.embd) THEN ParseError("ValueError")
    ELSE Parsed([word |-> ParseWord(row),
                 is_noun |-> Upper(Strip(row.noun)) = S_Y,
                 is_verb |-> Upper(Strip(row.verb)) = S_Y,
                 embedding |-> row.embd.elems])

(***************************************************************************)
(* Command.read_csv_file: the rows are parsed in order; a ValueError or    *)
(* KeyError of a row is logged and counted, any other exception leaves the *)
(* loop.  limit counts the rows parsed so far; 0 stands for None.          *)
(***************************************************************************)
RECURSIVE ReadRows(_, _, _, _)
ReadRows(rs, limit, words, errors) ==
    IF rs = <<>> \/ (limit # 0 /\ Len(words) >= limit)
    THEN [exc |-> "none", words |-> words, errors |-> errors]
    ELSE LET p == parse_csv_row(Head(rs))
         IN  CASE p.err = "none" -> ReadRows(Tail(rs), limit, Append(words, p.data), errors)
               [] p.err \in {"ValueError", "KeyError"} ->
                      ReadRows(Tail(rs), limit, words, errors + 1)
               [] OTHER -> [exc |-> p.err, words |-> words, errors |-> errors]

read_csv_file(file, limit) ==
    IF ~file.exists \/ ~file.headers
    THEN [exc |-> "CommandError", words |-> <<>>, errors |-> 0]
    ELSE ReadRows(file.rows, limit, <<>>, 0)

(***************************************************************************)
(* The Word table.                                                         *)
(***************************************************************************)
\* Word.objects.filter(word=w): the exact lookup compares the strings as they are
Exact(s, w) == {e \in s : e.word = w}

\* Word.objects.filter(word__iexact=w)
IExact(s, w) == {e \in s : Lower(e.word) = Lower(w)}

\* A row of the table.  The primary key is the identity of the row: the word is
\* unique, so a row is told from every other row by its word.
NewWord(d) ==
    [word |-> d.word, is_noun |-> d.is_noun, is_verb |-> d.is_verb,
     embedding |-> d.embedding]

\* an upsert that always inserts
update_or_create_mutant(s, d) == [store |-> s \cup {NewWord(d)}, created |-> TRUE]

\* Word.objects.update_or_create(word=d.word, defaults={...}): the table and created
update_or_create(s, d) ==
    IF Exact(s, d.word) = {}
    THEN [store |-> s \cup {NewWord(d)}, created |-> TRUE]
    ELSE [store |-> {IF e.word = d.word THEN NewWord(d) ELSE e : e \in s},
          created |-> FALSE]

(***************************************************************************)
(* Word.get_embedding_array and the vector arithmetic of numpy.  Vectors   *)
(* are sequences of integers; a similarity dot / (norm1 * norm2) is kept   *)
(* exactly, as the pair [num, den] that stands for num / sqrt(den).        *)
(***************************************************************************)
\* np.array(embedding, dtype=np.float32): True is 1.0, a string that is no number raises
get_embedding_array(e) ==
    IF e.embedding = <<>> THEN [exc |-> "ValueError", vec |-> <<>>]
    ELSE IF \E i \in 1..Len(e.embedding) : e.embedding[i].t \in {"str", "huge"}
    THEN LET bad == {i \in 1..Len(e.embedding) : e.embedding[i].t \in {"str", "huge"}}
             first == CHOOSE i \in bad : \A j \in bad : i <= j
         IN  \* float() of the integer raises OverflowError, which the except
             \* clause (TypeError, ValueError) lets through
             IF e.embedding[first].t = "huge"
             THEN [exc |-> "OverflowError", vec |-> <<>>]
             ELSE [exc |-> "ValueError", vec |-> <<>>]
    ELSE [exc |-> "none", vec |-> [i \in 1..Len(e.embedding) |-> e.embedding[i].v]]

RECURSIVE Dot(_, _)
Dot(u, v) == IF u = <<>> THEN 0 ELSE Head(u) * Head(v) + Dot(Tail(u), Tail(v))

\* a norm that is 1 for every vector
NormSqMutant(v) == 1

NormSq(v) == Dot(v, v)

Sim(num, den) == [num |-> num, den |-> den]
ZeroSim == Sim(0, 1)

\* the sign of x times x squared times d: orders the values x * sqrt(d)
SignedSq(x, d) == IF x >= 0 THEN x * x * d ELSE -(x * x * d)

RECURSIVE GCD(_, _)
GCD(a, b) == IF b = 0 THEN a ELSE GCD(b, a % b)

\* s1 > s2 and s1 >= s2 on similarities; the common factor of the two
\* denominators is left out of the comparison
SimGreater(s1, s2) ==
    LET g == GCD(s1.den, s2.den)
    IN  SignedSq(s1.num, s2.den \div g) > SignedSq(s2.num, s1.den \div g)
SimGeq(s1, s2) == ~SimGreater(s2, s1)

\* a threshold that lets every similarity through
SimAtLeastMutant(sim, tenths) == TRUE

\* similarity >= min_similarity, min_similarity given in tenths
SimAtLeast(sim, tenths) == SimGeq(Sim(10 * sim.num, sim.den), Sim(tenths, 1))

\* what a function that returns one similarity returned or raised
Scalar(exc, sim) == [exc |-> exc, items |-> <<>>, batch |-> <<>>, sim |-> sim]

\* a comparison that gives zero vectors the similarity 0
calculate_cosine_similarityMutant(vec1, vec2) ==
    IF Len(vec1) # Len(vec2) THEN Scalar("ValueError", ZeroSim)
    ELSE IF NormSq(vec1) = 0 \/ NormSq(vec2) = 0 THEN Scalar("none", ZeroSim)
    ELSE Scalar("none", Sim(Dot(vec1, vec2), NormSq(vec1) * NormSq(vec2)))

\* similarity.calculate_cosine_similarity on two arrays
calculate_cosine_similarity(vec1, vec2) ==
    IF Len(vec1) # Len(vec2) THEN Scalar("ValueError", ZeroSim)
    ELSE IF NormSq(vec1) = 0 \/ NormSq(vec2) = 0 THEN Scalar("ValueError", ZeroSim)
    ELSE Scalar("none", Sim(Dot(vec1, vec2), NormSq(vec1) * NormSq(vec2)))

(***************************************************************************)
(* Querysets: Meta.ordering = ['word'], list.sort and slicing.             *)
(***************************************************************************)
RECURSIVE WordLess(_, _)
WordLess(a, b) ==
    IF b = <<>> THEN FALSE
    ELSE IF a = <<>> THEN TRUE
    ELSE IF Head(a) # Head(b) THEN Head(a) < Head(b)
    ELSE WordLess(Tail(a), Tail(b))

\* a scan of the table from the last word to the first
RECURSIVE OrderByWordMutant(_)
OrderByWordMutant(s) ==
    IF s = {} THEN <<>>
    ELSE LET last == CHOOSE e \in s : \A f \in s \ {e} : WordLess(f.word, e.word)
         IN  <<last>> \o OrderByWordMutant(s \ {last})

RECURSIVE OrderByWord(_)
OrderByWord(s) ==
    IF s = {} THEN <<>>
    ELSE LET first == CHOOSE e \in s : \A f \in s \ {e} : WordLess(e.word, f.word)
         IN  <<first>> \o OrderByWord(s \ {first})

\* where list.sort(key=similarity, reverse=True) puts one more item: the sort is
\* stable, an item goes after the items whose similarity is not smaller
RECURSIVE InsertDescending(_, _)
InsertDescending(sorted, item) ==
    IF sorted = <<>> THEN <<item>>
    ELSE IF SimGeq(Head(sorted).sim, item.sim)
    THEN <<Head(sorted)>> \o InsertDescending(Tail(sorted), item)
    ELSE <<item>> \o sorted

\* a list left in the order of the scan
SortDescendingMutant(items) == items

RECURSIVE SortDescending(_)
SortDescending(items) ==
    IF items = <<>> THEN <<>>
    ELSE InsertDescending(SortDescending(SubSeq(items, 1, Len(items) - 1)),
                          items[Len(items)])

\* a slice that keeps every item
SliceToMutant(items, limit) == items

\* items[:limit]
SliceTo(items, limit) ==
    IF limit >= 0
    THEN SubSeq(items, 1, IF limit < Len(items) THEN limit ELSE Len(items))
    ELSE SubSeq(items, 1, IF Len(items) + limit > 0 THEN Len(items) + limit ELSE 0)

Item(e, sim) == [word |-> e, sim |-> sim]
Raised(exc) == [exc |-> exc, items |-> <<>>, batch |-> <<>>]
Returned(items) == [exc |-> "none", items |-> items, batch |-> <<>>]

(***************************************************************************)
(* similarity.find_similar_words                                           *)
(***************************************************************************)
\* a queryset that leaves the target in
ExcludeTargetMutant(s, target) == s

\* Word.objects.exclude(id=target.id)
ExcludeTarget(s, target) == s \ {target}

\* a filter that lets every row through
PosFilterMutant(s, pos) == s

\* the part-of-speech filter of find_similar_words
PosFilter(s, pos) ==
    CASE pos = "noun" -> {e \in s : e.is_noun}
      [] pos = "verb" -> {e \in s : e.is_verb}
      [] OTHER -> s

\* the body of the loop over the candidates: the items it appends
\* a loop that scores a candidate without norm with 0
RECURSIVE ScoreCandidatesMutant(_, _, _)
ScoreCandidatesMutant(cands, tvec, min) ==
    IF cands = <<>> THEN <<>>
    ELSE LET c == Head(cands)
             a == get_embedding_array(c)
             rest == ScoreCandidatesMutant(Tail(cands), tvec, min)
         IN  IF a.exc # "none" THEN rest
             ELSE IF Len(a.vec) # Len(tvec) THEN rest
             ELSE LET sim == IF NormSq(a.vec) = 0 THEN ZeroSim
                             ELSE Sim(Dot(tvec, a.vec), NormSq(tvec) * NormSq(a.vec))
                  IN  IF SimAtLeast(sim, min) THEN <<Item(c, sim)>> \o rest ELSE rest

\* the exceptions the loop over the candidates catches
LoopCaught == {"ValueError", "TypeError"}

\* the exceptions of the candidates that leave the loop
Escaping(excs) == excs \ (LoopCaught \cup {"none"})

RECURSIVE ScoreCandidates(_, _, _)
ScoreCandidates(cands, tvec, min) ==
    IF cands = <<>> THEN <<>>
    ELSE LET c == Head(cands)
             a == get_embedding_array(c)
             rest == ScoreCandidates(Tail(cands), tvec, min)
         IN  IF a.exc \in LoopCaught THEN rest
             ELSE IF NormSq(a.vec) = 0 THEN rest
             ELSE IF Len(a.vec) # Len(tvec) THEN rest           \* np.dot raises ValueError
             ELSE LET sim == Sim(Dot(tvec, a.vec), NormSq(tvec) * NormSq(a.vec))
                  IN  IF SimAtLeast(sim, min) THEN <<Item(c, sim)>> \o rest ELSE rest

find_similar_words(s, target_word, pos, limit, min) ==
    IF pos \notin {"none", "noun", "verb"} THEN Raised("ValueError")
    ELSE IF Exact(s, target_word) = {} THEN Raised("DoesNotExist")
    ELSE LET target == CHOOSE e \in Exact(s, target_word) : TRUE
             t == get_embedding_array(target)
             queryset == PosFilter(ExcludeTarget(s, target), pos)
             escaping == Escaping({get_embedding_array(c).exc : c \in queryset})
         IN  IF t.exc # "none" THEN Raised(t.exc)
             ELSE IF NormSq(t.vec) = 0 THEN Raised("ValueError")
             ELSE IF escaping # {} THEN Raised(CHOOSE x \in escaping : TRUE)
             ELSE Returned(SliceTo(SortDescending(
                      ScoreCandidates(OrderByWord(queryset), t.vec, min)), limit))

(***************************************************************************)
(* similarity.batch_find_similar_words                                     *)
(***************************************************************************)
\* the exceptions the loop over the targets catches
BatchCaught == {"DoesNotExist", "ValueError"}

Range(seq) == {seq[i] : i \in 1..Len(seq)}

batch_find_similar_words(s, target_words, pos, limit, min) ==
    LET one(w) == find_similar_words(s, w, pos, limit, min)
        escaped == {i \in 1..Len(target_words) :
                        one(target_words[i]).exc \notin BatchCaught \cup {"none"}}
    IN  IF escaped # {}
        THEN Raised(one(target_words[CHOOSE i \in escaped : \A j \in escaped : i <= j]).exc)
        ELSE [exc |-> "none", items |-> <<>>,
              batch |-> [w \in Range(target_words) |-> one(w).items]]

(***************************************************************************)
(* Word.cosine_similarity and Word.get_similar_words                       *)
(***************************************************************************)
\* a comparison of two words that raises for a zero vector
cosine_similarityMutant(self, other) ==
    LET v1 == get_embedding_array(self)
        v2 == get_embedding_array(other)
    IN  IF v1.exc # "none" THEN [exc |-> v1.exc, sim |-> ZeroSim]
        ELSE IF v2.exc # "none" THEN [exc |-> v2.exc, sim |-> ZeroSim]
        ELSE IF Len(v1.vec) # Len(v2.vec) THEN [exc |-> "ValueError", sim |-> ZeroSim]
        ELSE IF NormSq(v1.vec) = 0 \/ NormSq(v2.vec) = 0
        THEN [exc |-> "ValueError", sim |-> ZeroSim]
        ELSE [exc |-> "none",
              sim |-> Sim(Dot(v1.vec, v2.vec), NormSq(v1.vec) * NormSq(v2.vec))]

cosine_similarity(self, other) ==
    LET v1 == get_embedding_array(self)
        v2 == get_embedding_array(other)
    IN  IF v1.exc # "none" THEN [exc |-> v1.exc, sim |-> ZeroSim]
        ELSE IF v2.exc # "none" THEN [exc |-> v2.exc, sim |-> ZeroSim]
        ELSE IF Len(v1.vec) # Len(v2.vec) THEN [exc |-> "ValueError", sim |-> ZeroSim]
        ELSE IF NormSq(v1.vec) = 0 \/ NormSq(v2.vec) = 0 THEN [exc |-> "none", sim |-> ZeroSim]
        ELSE [exc |-> "none",
              sim |-> Sim(Dot(v1.vec, v2.vec), NormSq(v1.vec) * NormSq(v2.vec))]

\* the filters of get_similar_words: None, True or False for each flag
FlagFilter(s, is_noun, is_verb) ==
    {e \in s : /\ (is_noun # "None" => e.is_noun = (is_noun = "True"))
               /\ (is_verb # "None" => e.is_verb = (is_verb = "True"))}

RECURSIVE ScoreWithCosine(_, _, _)
ScoreWithCosine(cands, self, min) ==
    IF cands = <<>> THEN <<>>
    ELSE LET c == Head(cands)
             r == cosine_similarity(self, c)
             rest == ScoreWithCosine(Tail(cands), self, min)
         IN  IF r.exc \in LoopCaught THEN rest
             ELSE IF SimAtLeast(r.sim, min) THEN <<Item(c, r.sim)>> \o rest ELSE rest

get_similar_words(s, self, limit, min, is_noun, is_verb) ==
    LET this == get_embedding_array(self)
        queryset == FlagFilter(ExcludeTarget(s, self), is_noun, is_verb)
        escaping == Escaping({cosine_similarity(self, c).exc : c \in queryset})
    IN  IF this.exc # "none" THEN Raised(this.exc)
        ELSE IF escaping # {} THEN Raised(CHOOSE x \in escaping : TRUE)
        ELSE Returned(SliceTo(SortDescending(
                 ScoreWithCosine(OrderByWord(queryset), self, min)), limit))

(***************************************************************************)
(* The loadwords command.                                                  *)
(***************************************************************************)
ZeroStats == [created |-> 0, updated |-> 0, errors |-> 0]
NoReport == [printed |-> FALSE, created |-> 0, updated |-> 0, errors |-> 0, total |-> 0]
NoOpts == [clear |-> FALSE, dry_run |-> FALSE, limit |-> 0, confirm |-> <<>>]
\* a query parameter of a request: given with its text, or left out
Param(s) == [given |-> TRUE, s |-> s]
Absent == [given |-> FALSE, s |-> <<>>]
NoParams == [pos |-> Absent, limit |-> Absent, min_similarity |-> Absent]

NoQuery == [op |-> "none", target |-> <<>>, targets |-> <<>>, pos |-> "none",
            limit |-> 0, min |-> 0, is_noun |-> "None", is_verb |-> "None",
            params |-> NoParams, other |-> <<>>, vec1 |-> <<>>, vec2 |-> <<>>]
NoResult == Returned(<<>>)

\* the two scripts before they run
EmptyMap == [w \in {} |-> {}]
NoClassifier == [pc |-> "idle", files |-> {}, todo |-> {}, word_pos_map |-> EmptyMap,
                 records |-> <<>>, exc |-> "none"]

NoAttacher == [pc |-> "idle", df |-> <<>>, model |-> EmptyMap,
               df_with_embeddings |-> <<>>,
               stats |-> [total_words |-> 0, words_with_embeddings |-> 0,
                          words_skipped |-> 0, skipped_words |-> <<>>,
                          embedding_dimension |-> 0]]

Limits == {0, 1}
Answers == {S_yes, S_YES, S_no, <<>>}

\* a clear that a dry run does not hold back
ClearAskedMutant(o) == o.clear

\* handle, line 308: the clear is asked for
ClearAsked(o) == o.clear /\ ~o.dry_run

\* a clear that does not wait for the answer
ClearConfirmedMutant(o) == ClearAsked(o)

\* handle, lines 309-312: the clear is confirmed
ClearConfirmed(o) == ClearAsked(o) /\ Lower(o.confirm) = S_yes

\* handle up to the end of the clear step; a run is a new Command object
HandleClear(clear, dry_run, limit, confirm) ==
    LET o == [clear |-> clear, dry_run |-> dry_run, limit |-> limit, confirm |-> confirm]
    IN  /\ pc \in {"idle", "done"}
        /\ ClearAsked(o) \/ confirm = <<>>       \* input() is called only to confirm a clear
        /\ opts' = o
        /\ stats' = ZeroStats
        /\ report' = NoReport
        /\ rows' = <<>>
        /\ words_data' = <<>>
        /\ idx' = 0
        /\ store0' = store
        /\ store' = IF ClearConfirmed(o) THEN {} ELSE store
        /\ IF ClearAsked(o) /\ ~ClearConfirmed(o)
           THEN pc' = "done" /\ outcome' = "cancelled"
           ELSE pc' = "read" /\ outcome' = "running"
        /\ UNCHANGED <<query, result>>
        /\ UNCHANGED scripts

\* handle, lines 322-332: read_csv_file and the check for an empty result
ReadCsvFile(file) ==
    LET r == read_csv_file(file, opts.limit)
    IN  /\ pc = "read"
        /\ rows' = file.rows
        /\ words_data' = IF r.exc # "none" THEN <<>> ELSE r.words   \* nothing is returned
        /\ stats' = [stats EXCEPT !.errors = r.errors]
        /\ idx' = 1
        /\ IF r.exc # "none"
           THEN pc' = "done" /\ outcome' = "CommandError"
           ELSE IF r.words = <<>>
           THEN pc' = "done" /\ outcome' = "no_valid_words"
           ELSE pc' = "loading" /\ outcome' = "running"
        /\ UNCHANGED <<store, opts, report, store0, query, result>>
        /\ UNCHANGED scripts

\* load_words_batch: one turn of the loop, the record is checked or upserted
LoadRecord ==
    /\ pc = "loading"
    /\ idx <= Len(words_data)
    /\ LET d == words_data[idx]
           u == update_or_create(store, d)
           created == IF opts.dry_run THEN Exact(store, d.word) = {} ELSE u.created
       IN  /\ store' = IF opts.dry_run THEN store ELSE u.store
           /\ stats' = IF created
                       THEN [stats EXCEPT !.created = @ + 1]
                       ELSE [stats EXCEPT !.updated = @ + 1]
    /\ idx' = idx + 1
    /\ UNCHANGED <<pc, opts, rows, words_data, outcome, report, store0, query, result>>
    /\ UNCHANGED scripts

\* load_words_batch: one turn of the loop in which the table raises
LoadRecordRaises ==
    /\ pc = "loading"
    /\ idx <= Len(words_data)
    /\ stats' = [stats EXCEPT !.errors = @ + 1]
    /\ idx' = idx + 1
    /\ UNCHANGED <<store, pc, opts, rows, words_data, outcome, report, store0,
                   query, result>>
    /\ UNCHANGED scripts

\* print_summary, after the loop
PrintSummary ==
    /\ pc = "loading"
    /\ idx > Len(words_data)
    /\ report' = [printed |-> TRUE, created |-> stats.created, updated |-> stats.updated,
                  errors |-> stats.errors, total |-> stats.created + stats.updated]
    /\ pc' = "done"
    /\ outcome' = "ok"
    /\ UNCHANGED <<store, opts, rows, words_data, idx, stats, store0, query, result>>
    /\ UNCHANGED scripts

\* an interrupt that takes back what the run has written
InterruptMutant ==
    /\ pc = "loading"
    /\ idx <= Len(words_data)
    /\ pc' = "done"
    /\ outcome' = "KeyboardInterrupt"
    /\ store' = store0
    /\ UNCHANGED <<opts, rows, words_data, idx, stats, report, store0, query, result>>
    /\ UNCHANGED scripts

\* KeyboardInterrupt during load_words_batch
Interrupt ==
    /\ pc = "loading"
    /\ idx <= Len(words_data)
    /\ pc' = "done"
    /\ outcome' = "KeyboardInterrupt"
    /\ UNCHANGED <<store, opts, rows, words_data, idx, stats, report, store0,
                   query, result>>
    /\ UNCHANGED scripts

Init ==
    /\ store = {}
    /\ pc = "idle"
    /\ opts = NoOpts
    /\ rows = <<>>
    /\ words_data = <<>>
    /\ idx = 0
    /\ stats = ZeroStats
    /\ outcome = "none"
    /\ report = NoReport
    /\ store0 = {}
    /\ query = NoQuery
    /\ result = NoResult
    /\ classifier = NoClassifier
    /\ attacher = NoAttacher

(***************************************************************************)
(* The table filled as the tests fill it, and the similarity calls.        *)
(***************************************************************************)
Entry(word, is_noun, is_verb, embedding) ==
    [word |-> word, is_noun |-> is_noun, is_verb |-> is_verb, embedding |-> embedding]

Fixtures ==
    {Entry(S_a, TRUE, FALSE, Nums(<<1, 0>>)),
     Entry(S_a, TRUE, TRUE, Nums(<<0, 0>>)),
     Entry(S_a, TRUE, FALSE, <<>>),
     Entry(S_b, TRUE, FALSE, Nums(<<1, 1>>)),
     Entry(S_b, FALSE, TRUE, Nums(<<0, 0>>)),
     Entry(S_b, TRUE, FALSE, Nums(<<1>>)),
     Entry(S_c, FALSE, TRUE, Nums(<<1, -1>>)),
     Entry(S_c, TRUE, TRUE, Nums(<<-1, 0>>)),
     Entry(S_c, FALSE, FALSE, <<Num(1), JStr>>),
     Entry(S_d, FALSE, TRUE, Nums(<<2, 0>>)),
     Entry(S_d, TRUE, FALSE, Nums(<<0, 1>>)),
     Entry(S_d, TRUE, TRUE, <<Num(1), JHuge>>)}

TargetWords == {S_a, S_A, S_b, S_e}
PosValues == {"none", "noun", "verb", "invalid"}
QueryLimits == {1, 2}
MinSimilarities == {0, 9}
OptionalBool == {"None", "True", "False"}

\* Word.objects.create(...): the unique index on word refuses a second row of a word
\* and no loadwords command is running
CreateWord(e) ==
    /\ pc \in {"idle", "done"}
    /\ Cardinality(store) < MaxStore
    /\ Exact(store, e.word) = {}
    /\ store' = store \cup {e}
    /\ store0' = store'
    /\ pc' = "idle"
    /\ opts' = NoOpts
    /\ rows' = <<>>
    /\ words_data' = <<>>
    /\ idx' = 0
    /\ stats' = ZeroStats
    /\ outcome' = "none"
    /\ report' = NoReport
    /\ query' = NoQuery
    /\ result' = NoResult
    /\ UNCHANGED scripts

FindSimilarWords(target_word, pos, limit, min) ==
    /\ query.op = "none"
    /\ query' = [NoQuery EXCEPT !.op = "find_similar_words", !.target = target_word,
                                !.pos = pos, !.limit = limit, !.min = min]
    /\ result' = find_similar_words(store, target_word, pos, limit, min)
    /\ UNCHANGED <<store, pc, opts, rows, words_data, idx, stats, outcome, report, store0>>
    /\ UNCHANGED scripts

BatchFindSimilarWords(target_words, pos, limit, min) ==
    /\ query.op = "none"
    /\ query' = [NoQuery EXCEPT !.op = "batch_find_similar_words", !.targets = target_words,
                                !.pos = pos, !.limit = limit, !.min = min]
    /\ result' = batch_find_similar_words(store, target_words, pos, limit, min)
    /\ UNCHANGED <<store, pc, opts, rows, words_data, idx, stats, outcome, report, store0>>
    /\ UNCHANGED scripts

GetSimilarWords(self, limit, min, is_noun, is_verb) ==
    /\ self \in store
    /\ query.op = "none"
    /\ query' = [NoQuery EXCEPT !.op = "get_similar_words", !.target = self.word,
                                !.limit = limit, !.min = min,
                                !.is_noun = is_noun, !.is_verb = is_verb]
    /\ result' = get_similar_words(store, self, limit, min, is_noun, is_verb)
    /\ UNCHANGED <<store, pc, opts, rows, words_data, idx, stats, outcome, report, store0>>
    /\ UNCHANGED scripts

\* the arrays calculate_cosine_similarity is called with
Arrays == {<<1, 0>>, <<0, 0>>, <<1, 1>>, <<-1, 0>>, <<1>>, <<0>>}

CalculateCosineSimilarity(vec1, vec2) ==
    /\ query.op = "none"
    /\ query' = [NoQuery EXCEPT !.op = "calculate_cosine_similarity",
                                !.vec1 = vec1, !.vec2 = vec2]
    /\ result' = calculate_cosine_similarity(vec1, vec2)
    /\ UNCHANGED <<store, pc, opts, rows, words_data, idx, stats, outcome, report, store0>>
    /\ UNCHANGED scripts

\* self.cosine_similarity(other_word) on two rows of the table
CosineSimilarity(self, other) ==
    /\ query.op = "none"
    /\ self \in store
    /\ other \in store
    /\ query' = [NoQuery EXCEPT !.op = "cosine_similarity", !.target = self.word,
                                !.other = other.word]
    /\ result' = LET r == cosine_similarity(self, other) IN Scalar(r.exc, r.sim)
    /\ UNCHANGED <<store, pc, opts, rows, words_data, idx, stats, outcome, report, store0>>
    /\ UNCHANGED scripts

(***************************************************************************)
(* views.WordViewSet: GET /api/words/{word}/ and /api/words/{word}/similar/ *)
(***************************************************************************)
\* a response: the status, the rows or items of the body, and whether
\* find_similar_words was called to make it
Response(status, data, called) ==
    [exc |-> "none", items |-> <<>>, batch |-> <<>>,
     status |-> status, data |-> data, called |-> called]

\* ReadOnlyModelViewSet.retrieve: get_object filters the queryset by
\* {lookup_field: value}, an exact lookup on word
retrieve(s, word) ==
    IF Exact(s, word) = {} THEN Response(404, <<>>, FALSE)
    ELSE Response(200, <<CHOOSE e \in Exact(s, word) : TRUE>>, FALSE)

Digits == 48..57

RECURSIVE DigitsValue(_)
DigitsValue(s) ==
    IF s = <<>> THEN 0
    ELSE 10 * DigitsValue(SubSeq(s, 1, Len(s) - 1)) + (s[Len(s)] - 48)

IsDigits(s) == s # <<>> /\ \A i \in 1..Len(s) : s[i] \in Digits

\* the text without its sign, and the sign
Unsigned(t) == IF t # <<>> /\ Head(t) \in {43, 45} THEN Tail(t) ELSE t
Sign(t) == IF t # <<>> /\ Head(t) = 45 THEN -1 ELSE 1

\* IntegerField.to_internal_value: int(data)
ParseInt(s) ==
    LET t == Strip(s)
    IN  IF IsDigits(Unsigned(t)) THEN [ok |-> TRUE, v |-> Sign(t) * DigitsValue(Unsigned(t))]
        ELSE [ok |-> FALSE, v |-> 0]

\* FloatField.to_internal_value: float(data), in tenths, of a decimal text with at
\* most one digit after the point
ParseTenths(s) ==
    LET t == Strip(s)
        u == Unsigned(t)
        point == {i \in 1..Len(u) : u[i] = 46}
    IN  IF point = {}
        THEN IF IsDigits(u) THEN [ok |-> TRUE, v |-> Sign(t) * 10 * DigitsValue(u)]
             ELSE [ok |-> FALSE, v |-> 0]
        ELSE LET i == CHOOSE j \in point : TRUE
                 whole == SubSeq(u, 1, i - 1)
                 frac == SubSeq(u, i + 1, Len(u))
             IN  IF Cardinality(point) = 1 /\ IsDigits(whole) /\ IsDigits(frac) /\ Len(frac) = 1
                 THEN [ok |-> TRUE, v |-> Sign(t) * (10 * DigitsValue(whole) + DigitsValue(frac))]
                 ELSE [ok |-> FALSE, v |-> 0]

DefaultLimit == 10
MinLimit == 1
MaxLimit == 100
DefaultMinSimilarity == 0
MinMinSimilarity == 0
MaxMinSimilarity == 10

\* pos = ChoiceField(choices=['noun', 'verb'], required=False, allow_blank=True):
\* a parameter left out is no key of validated_data, a blank one is kept as ''.
\* The serializer has no validate_pos, and validate_part_of_speech is looked up
\* for no field: the value is not changed after the field accepted it.
PosField(p) ==
    IF ~p.given THEN [ok |-> TRUE, given |-> FALSE, s |-> <<>>]
    ELSE IF p.s = <<>> \/ p.s \in {S_noun, S_verb} THEN [ok |-> TRUE, given |-> TRUE, s |-> p.s]
    ELSE [ok |-> FALSE, given |-> TRUE, s |-> p.s]

\* limit = IntegerField(default=10, min_value=1, max_value=100); a blank
\* parameter of a field that is not required counts as left out
LimitField(p) ==
    IF ~p.given \/ p.s = <<>> THEN [ok |-> TRUE, v |-> DefaultLimit]
    ELSE LET n == ParseInt(p.s)
         IN  [ok |-> n.ok /\ n.v >= MinLimit /\ n.v <= MaxLimit, v |-> n.v]

\* min_similarity = FloatField(default=0.0, min_value=0.0, max_value=1.0)
MinSimilarityField(p) ==
    IF ~p.given \/ p.s = <<>> THEN [ok |-> TRUE, v |-> DefaultMinSimilarity]
    ELSE LET x == ParseTenths(p.s)
         IN  [ok |-> x.ok /\ x.v >= MinMinSimilarity /\ x.v <= MaxMinSimilarity, v |-> x.v]

\* SimilaritySearchSerializer(data=request.query_params): is_valid and validated_data
SimilaritySearchSerializer(params) ==
    LET pos == PosField(params.pos)
        limit == LimitField(params.limit)
        min == MinSimilarityField(params.min_similarity)
    IN  [is_valid |-> pos.ok /\ limit.ok /\ min.ok,
         part_of_speech |-> pos, limit |-> limit.v, min_similarity |-> min.v]

\* the part_of_speech argument as find_similar_words tells it apart: None, 'noun',
\* 'verb', or a string that is neither
PosArgument(pos) ==
    IF ~pos.given THEN "none"
    ELSE IF pos.s = S_noun THEN "noun"
    ELSE IF pos.s = S_verb THEN "verb"
    ELSE "invalid"

\* WordViewSet.similar
similar(s, word, params) ==
    LET v == SimilaritySearchSerializer(params)
        r == find_similar_words(s, word, PosArgument(v.part_of_speech), v.limit,
                                v.min_similarity)
    IN  IF ~v.is_valid THEN Response(400, <<>>, FALSE)
        ELSE IF r.exc = "DoesNotExist" THEN Response(404, <<>>, TRUE)
        ELSE IF r.exc = "ValueError" THEN Response(400, <<>>, TRUE)
        ELSE IF r.exc # "none" THEN Response(500, <<>>, TRUE)    \* not handled by the view
        ELSE Response(200, r.items, TRUE)

\* the table of WordAPITestCase.setUp; the embeddings are in units of 0.05
ApiFixtures ==
    {Entry(S_dog, TRUE, FALSE, Nums(<<2, 4, 6, 8, 10>>)),
     Entry(S_cat, TRUE, FALSE, Nums(<<3, 5, 7, 9, 11>>)),
     Entry(S_run, FALSE, TRUE, Nums(<<18, 16, 14, 12, 10>>))}

ApiWords == {S_dog, S_DOG, S_cat, S_nonexistent}
PosParams == {Absent, Param(S_noun), Param(S_verb), Param(S_NOUN), Param(S_invalid),
              Param(<<>>)}
LimitParams == {Absent, Param(S_2), Param(S_0), Param(S_100), Param(S_101),
                Param(S_not_a_number)}
MinSimilarityParams == {Absent, Param(S_0_9), Param(S_1_5), Param(S_minus_0_1)}

RetrieveWord(word) ==
    /\ query.op = "none"
    /\ query' = [NoQuery EXCEPT !.op = "retrieve", !.target = word]
    /\ result' = retrieve(store, word)
    /\ UNCHANGED <<store, pc, opts, rows, words_data, idx, stats, outcome, report, store0>>
    /\ UNCHANGED scripts

SimilarWords(word, params) ==
    /\ query.op = "none"
    /\ query' = [NoQuery EXCEPT !.op = "similar", !.target = word, !.params = params]
    /\ result' = similar(store, word, params)
    /\ UNCHANGED <<store, pc, opts, rows, words_data, idx, stats, outcome, report, store0>>
    /\ UNCHANGED scripts

(***************************************************************************)
(* temp/classify_words.py                                                  *)
(***************************************************************************)
S_pos_eq == <<112, 111, 115, 61>>
S_lang_eq == <<108, 97, 110, 103, 61>>
S_length_eq == <<108, 101, 110, 103, 116, 104, 61>>
S_dot_txt == <<46, 116, 120, 116>>
S_en == <<101, 110>>

\* \w and \d of the regular expressions, on ASCII
WordChars == (48..57) \cup (65..90) \cup (97..122) \cup {95}

StartsWith(s, prefix) ==
    Len(s) >= Len(prefix) /\ SubSeq(s, 1, Len(prefix)) = prefix

\* the longest prefix of s made of the characters of chars
RECURSIVE TakeWhile(_, _)
TakeWhile(s, chars) ==
    IF s # <<>> /\ Head(s) \in chars THEN <<Head(s)>> \o TakeWhile(Tail(s), chars)
    ELSE <<>>

Drop(s, n) == SubSeq(s, n + 1, Len(s))

\* where the text goes on after key=<group>: the group is the longest run of
\* chars, and it is not empty
Group(s, key, chars) ==
    LET g == IF StartsWith(s, key) THEN TakeWhile(Drop(s, Len(key)), chars) ELSE <<>>
    IN  [ok |-> g # <<>>, group |-> g, rest |-> Drop(s, Len(key) + Len(g))]

\* parse_filename: re.match(r"pos=(\w+),lang=(\w+),length=(\d+)\.txt", filename);
\* a match is a match of a prefix of the name
parse_filename(filename) ==
    LET p == Group(filename, S_pos_eq, WordChars)
        l == Group(p.rest, <<44>> \o S_lang_eq, WordChars)
        n == Group(l.rest, <<44>> \o S_length_eq, Digits)
    IN  IF p.ok /\ l.ok /\ n.ok /\ StartsWith(n.rest, S_dot_txt)
        THEN [exc |-> "none", pos |-> p.group, lang |-> l.group,
              length |-> DigitsValue(n.group)]
        ELSE [exc |-> "ValueError", pos |-> <<>>, lang |-> <<>>, length |-> 0]

\* line.split(':', 1)[0]
RECURSIVE BeforeColon(_)
BeforeColon(line) ==
    IF line = <<>> \/ Head(line) = 58 THEN <<>>
    ELSE <<Head(line)>> \o BeforeColon(Tail(line))

\* extract_word_from_line: the word, or <<>> for None
extract_word_from_line(line) ==
    IF 58 \notin Range(line) THEN <<>>
    ELSE Lower(Strip(BeforeColon(line)))

\* a defaultdict(set) that forgets the labels it had for the word
AddPosMutant(map, word, pos) ==
    [w \in DOMAIN map \cup {word} |-> IF w = word THEN {pos} ELSE map[w]]

\* word_pos_map[word].add(pos)
AddPos(map, word, pos) ==
    [w \in DOMAIN map \cup {word} |->
        IF w = word THEN (IF w \in DOMAIN map THEN map[w] ELSE {}) \cup {pos}
        ELSE map[w]]

\* the loop over the lines of one file
RECURSIVE AddLines(_, _, _)
AddLines(map, lines, pos) ==
    IF lines = <<>> THEN map
    ELSE LET word == extract_word_from_line(Strip(Head(lines)))
         IN  AddLines(IF word # <<>> THEN AddPos(map, word, pos) ELSE map,
                      Tail(lines), pos)

\* a loop that reads the files of every language and part of speech
ProcessFileMutant(map, file) ==
    LET name == parse_filename(file.name)
    IN  IF file.lines = <<>> THEN map
        ELSE IF name.exc # "none" THEN map
        ELSE AddLines(map, file.lines, name.pos)

\* one turn of the loop over the files: the map after the file
ProcessFile(map, file) ==
    LET name == parse_filename(file.name)
    IN  IF file.lines = <<>> THEN map                     \* st_size == 0
        ELSE IF name.exc # "none" THEN map
        ELSE IF name.lang # S_en \/ name.pos \notin {S_noun, S_verb} THEN map
        ELSE AddLines(map, file.lines, name.pos)

\* sorted(word_pos_map.keys())
RECURSIVE SortWords(_)
SortWords(ws) ==
    IF ws = {} THEN <<>>
    ELSE LET first == CHOOSE w \in ws : \A v \in ws \ {w} : WordLess(w, v)
         IN  <<first>> \o SortWords(ws \ {first})

\* classify_words: the records of the DataFrame
classify_words(word_pos_map) ==
    LET words == SortWords(DOMAIN word_pos_map)
    IN  [i \in 1..Len(words) |->
            [word |-> words[i],
             noun |-> IF S_noun \in word_pos_map[words[i]] THEN S_Y ELSE S_N,
             verb |-> IF S_verb \in word_pos_map[words[i]] THEN S_Y ELSE S_N]]

\* 'pos=noun,lang=en,length=3.txt'
F_noun_en_3 == <<112, 111, 115, 61, 110, 111, 117, 110, 44, 108, 97, 110, 103, 61, 101, 110, 44, 108, 101, 110, 103, 116, 104, 61, 51, 46, 116, 120, 116>>
\* 'pos=verb,lang=en,length=3.txt'
F_verb_en_3 == <<112, 111, 115, 61, 118, 101, 114, 98, 44, 108, 97, 110, 103, 61, 101, 110, 44, 108, 101, 110, 103, 116, 104, 61, 51, 46, 116, 120, 116>>
\* 'pos=noun,lang=en,length=4.txt'
F_noun_en_4 == <<112, 111, 115, 61, 110, 111, 117, 110, 44, 108, 97, 110, 103, 61, 101, 110, 44, 108, 101, 110, 103, 116, 104, 61, 52, 46, 116, 120, 116>>
\* 'pos=noun,lang=fr,length=3.txt'
F_noun_fr_3 == <<112, 111, 115, 61, 110, 111, 117, 110, 44, 108, 97, 110, 103, 61, 102, 114, 44, 108, 101, 110, 103, 116, 104, 61, 51, 46, 116, 120, 116>>
\* 'pos=adj,lang=en,length=3.txt'
F_adj_en_3 == <<112, 111, 115, 61, 97, 100, 106, 44, 108, 97, 110, 103, 61, 101, 110, 44, 108, 101, 110, 103, 116, 104, 61, 51, 46, 116, 120, 116>>
\* 'readme.txt'
F_readme == <<114, 101, 97, 100, 109, 101, 46, 116, 120, 116>>
\* 'run: go'
L_run == <<114, 117, 110, 58, 32, 103, 111>>
\* ' Run : go'
L_Run == <<32, 82, 117, 110, 32, 58, 32, 103, 111>>
\* 'dog: pet'
L_dog == <<100, 111, 103, 58, 32, 112, 101, 116>>
\* 'no colon'
L_no_colon == <<110, 111, 32, 99, 111, 108, 111, 110>>
\* ' : go'
L_no_word == <<32, 58, 32, 103, 111>>

FileNames == {F_noun_en_3, F_verb_en_3, F_noun_en_4, F_noun_fr_3, F_adj_en_3, F_readme}
Contents == {<<>>, <<L_run, L_no_colon>>, <<L_Run, L_no_word, L_dog>>}

\* the directories: files of different names, each with its lines
Directories ==
    UNION {{{[name |-> n, lines |-> c[n]] : n \in P} : c \in [P -> Contents]} :
              P \in SUBSET FileNames}

\* process_word_files up to the loop: the *.txt files of the directory
StartProcessWordFiles ==
    /\ classifier.pc = "idle"
    /\ \E dir \in Directories :
           classifier' =
               IF dir = {}
               THEN [NoClassifier EXCEPT !.pc = "done", !.exc = "FileNotFoundError"]
               ELSE [NoClassifier EXCEPT !.pc = "loop", !.files = dir, !.todo = dir]
    /\ UNCHANGED <<app, attacher>>

\* one turn of the loop over word_files.  sorted() fixes the order of the visit;
\* the loop here takes the files in any order, the sorted one among them
VisitFile ==
    /\ classifier.pc = "loop"
    /\ \E file \in classifier.todo :
           classifier' = [classifier EXCEPT !.todo = @ \ {file},
                                            !.word_pos_map = ProcessFile(@, file)]
    /\ UNCHANGED <<app, attacher>>

\* process_word_files returns and classify_words makes the records
ClassifyWords ==
    /\ classifier.pc = "loop"
    /\ classifier.todo = {}
    /\ classifier' = [classifier EXCEPT !.pc = "done",
                                        !.records = classify_words(classifier.word_pos_map)]
    /\ UNCHANGED <<app, attacher>>

(***************************************************************************)
(* temp/generate_embeddings.py                                             *)
(***************************************************************************)
\* a cell of the word column: a string, or the float NaN that read_csv makes of
\* an empty cell
Str(s) == [t |-> "str", s |-> s]
NaN == [t |-> "float", s |-> <<>>]

None == [t |-> "None", v |-> <<>>]
Value(v) == [t |-> "value", v |-> v]

\* get_embedding: model[word], or None for a word that is no string, is blank or
\* is not in the vocabulary (KeyError)
get_embedding(word, model) ==
    IF word.t # "str" \/ Strip(word.s) = <<>> THEN None
    ELSE IF word.s \in DOMAIN model THEN Value(model[word.s])
    ELSE None

\* embedding_to_json: json.dumps(embedding.tolist())
embedding_to_json(embedding) == Value(Nums(embedding.v))

\* the loop of process_words_in_batches over df.iterrows()
RECURSIVE ProcessRows(_, _, _)
ProcessRows(df, model, acc) ==
    IF df = <<>> THEN acc
    ELSE LET word == Head(df).word
             embedding == get_embedding(word, model)
         IN  ProcessRows(Tail(df), model,
                 IF embedding # None
                 THEN [acc EXCEPT !.embeddings = Append(@, embedding_to_json(embedding)),
                                  !.words_with_embeddings = @ + 1]
                 ELSE [acc EXCEPT !.embeddings = Append(@, None),
                                  !.words_skipped = @ + 1,
                                  !.skipped_words = Append(@, word)])

\* a frame that keeps the rows without embedding
DropNaMutant(df) == df

\* df.dropna(subset=["embd"])
DropNa(df) == SelectSeq(df, LAMBDA row : row.embd # None)

SampleSize == 10

\* a sample that keeps every skipped word
SkippedSampleMutant(skipped_words) == skipped_words

\* skipped_words[:10]
SkippedSample(skipped_words) == SliceTo(skipped_words, SampleSize)

VectorSize == 2

process_words_in_batches(df, model) ==
    LET acc == ProcessRows(df, model,
                   [embeddings |-> <<>>, words_with_embeddings |-> 0,
                    words_skipped |-> 0, skipped_words |-> <<>>])
        with_embd == [i \in 1..Len(df) |->
                         [word |-> df[i].word, noun |-> df[i].noun, verb |-> df[i].verb,
                          embd |-> acc.embeddings[i]]]
    IN  [df_with_embeddings |-> DropNa(with_embd),
         stats |-> [total_words |-> Len(df),
                    words_with_embeddings |-> acc.words_with_embeddings,
                    words_skipped |-> acc.words_skipped,
                    skipped_words |-> SkippedSample(acc.skipped_words),
                    embedding_dimension |-> VectorSize]]

\* the rows of the classified CSV file and the pretrained models
ClassifiedRow(word) == [word |-> word, noun |-> S_Y, verb |-> S_N]
WordRows == {ClassifiedRow(Str(S_run)), ClassifiedRow(Str(S_dog))}
CellRows == WordRows \cup {ClassifiedRow(NaN), ClassifiedRow(Str(<<32>>))}
Models == {EmptyMap, [w \in {S_run} |-> <<1, 0>>], [w \in {S_run, S_dog} |-> <<1, 0>>]}

\* the frames: long ones of two words, short ones of every kind of cell
Frames == SeqUpTo(WordRows, MaxWords) \cup SeqUpTo(CellRows, MaxCells)

\* the call of process_words_in_batches in main
ProcessWordsInBatches ==
    /\ attacher.pc = "idle"
    /\ \E df \in Frames, model \in Models :
           LET r == process_words_in_batches(df, model)
           IN  attacher' = [pc |-> "done", df |-> df, model |-> model,
                            df_with_embeddings |-> r.df_with_embeddings,
                            stats |-> r.stats]
    /\ UNCHANGED <<app, classifier>>

Next ==
    \/ \E clear \in BOOLEAN, dry_run \in BOOLEAN, limit \in Limits, confirm \in Answers :
           HandleClear(clear, dry_run, limit, confirm)
    \/ \E file \in Files : ReadCsvFile(file)
    \/ LoadRecord
    \/ LoadRecordRaises
    \/ PrintSummary
    \/ Interrupt
    \/ CreateWord(Entry(S_a, TRUE, FALSE, <<>>))

Spec == Init /\ [][Next]_vars

NextQuery ==
    \/ \E e \in Fixtures : CreateWord(e)
    \/ \E w \in TargetWords, pos \in PosValues, limit \in QueryLimits,
          min \in MinSimilarities : FindSimilarWords(w, pos, limit, min)
    \/ \E ws \in SeqUpTo(TargetWords, 2), pos \in PosValues, limit \in QueryLimits,
          min \in MinSimilarities : BatchFindSimilarWords(ws, pos, limit, min)
    \/ \E self \in store, limit \in QueryLimits, min \in MinSimilarities,
          is_noun \in OptionalBool, is_verb \in OptionalBool :
           GetSimilarWords(self, limit, min, is_noun, is_verb)
    \/ \E vec1 \in Arrays, vec2 \in Arrays : CalculateCosineSimilarity(vec1, vec2)
    \/ \E self \in store, other \in store : CosineSimilarity(self, other)

SpecQuery == Init /\ [][NextQuery]_vars

NextApi ==
    \/ \E e \in ApiFixtures : CreateWord(e)
    \/ \E word \in ApiWords : RetrieveWord(word)
    \/ \E word \in ApiWords, pos \in PosParams, limit \in LimitParams,
          min \in MinSimilarityParams :
           SimilarWords(word, [pos |-> pos, limit |-> limit, min_similarity |-> min])
    \/ \E word \in ApiWords, limit \in QueryLimits, min \in MinSimilarities :
           FindSimilarWords(word, "none", limit, min)
    \/ \E self \in store, limit \in QueryLimits, min \in MinSimilarities :
           GetSimilarWords(self, limit, min, "None", "None")

SpecApi == Init /\ [][NextApi]_vars

NextClassifier ==
    \/ StartProcessWordFiles
    \/ VisitFile
    \/ ClassifyWords

SpecClassifier == Init /\ [][NextClassifier]_vars

NextAttacher == ProcessWordsInBatches

SpecAttacher == Init /\ [][NextAttacher]_vars

(***************************************************************************)
(* Properties of the similarity search, under SpecQuery.                   *)
(***************************************************************************)
IsSearch == query.op \in {"find_similar_words", "get_similar_words"}
Items == {result.items[i] : i \in 1..Len(result.items)}

\* C1: whatever the table, the filter, the limit and min_similarity, no item that
\* find_similar_words or Word.get_similar_words returns for an existing target is
\* the target's own row.
C1_TargetNeverReturned ==
    IsSearch => \A it \in Items : it.word.word # query.target /\ it.word \in store

\* C1 witness: a search for a stored word that returned two other rows
C1_Witness ==
    /\ IsSearch
    /\ Exact(store, query.target) # {}
    /\ Len(result.items) = 2

\* C2: the target is resolved ignoring case: the call fails with not-found only
\* when no stored word equals the target ignoring case, and otherwise returns what
\* it returns for the stored spelling.
C2_TargetCaseInsensitive ==
    query.op = "find_similar_words" =>
        /\ result.exc = "DoesNotExist" => IExact(store, query.target) = {}
        /\ \A e \in IExact(store, query.target) :
               result = find_similar_words(store, e.word, query.pos, query.limit, query.min)

\* C10: batch_find_similar_words does not raise; a target that is missing or whose
\* call fails with ValueError is mapped to the empty list, every other target to the
\* list find_similar_words returns for it.
C10_BatchIsolatesFailures ==
    query.op = "batch_find_similar_words" =>
        /\ result.exc = "none"
        /\ DOMAIN result.batch = Range(query.targets)
        /\ \A w \in Range(query.targets) :
               LET r == find_similar_words(store, w, query.pos, query.limit, query.min)
               IN  /\ Exact(store, w) = {} => result.batch[w] = <<>>
                   /\ r.exc # "none" => result.batch[w] = <<>>
                   /\ r.exc = "none" => result.batch[w] = r.items

\* C10 witness: a batch of a missing word and of a known word that has two
\* similar words
C10_Witness ==
    /\ query.op = "batch_find_similar_words"
    /\ query.targets = <<S_e, S_b>>
    /\ result.exc = "none"
    /\ result.batch[S_e] = <<>>
    /\ Len(result.batch[S_b]) = 2

\* the search found its target and returned a list
Answered == IsSearch /\ Exact(store, query.target) # {} /\ result.exc = "none"

TargetRow == CHOOSE e \in Exact(store, query.target) : TRUE
ReturnedWords == {it.word : it \in Items}

\* the rows of the table with their similarity to the target: both embeddings are
\* arrays of one length; a row without norm has no similarity in
\* find_similar_words and the similarity 0 in Word.get_similar_words
HasSimilarity(e) ==
    LET t == get_embedding_array(TargetRow)
        a == get_embedding_array(e)
    IN  /\ t.exc = "none"
        /\ a.exc = "none"
        /\ Len(a.vec) = Len(t.vec)
        /\ query.op = "find_similar_words" => NormSq(a.vec) # 0

Cosine(e) ==
    LET t == get_embedding_array(TargetRow).vec
        a == get_embedding_array(e).vec
    IN  IF NormSq(t) = 0 \/ NormSq(a) = 0 THEN Sim(0, 1)
        ELSE Sim(Dot(t, a), NormSq(t) * NormSq(a))

\* 10 * num / sqrt(den) >= min_similarity in tenths
AtLeastMin(sim) ==
    SignedSq(10 * sim.num, 1) >= SignedSq(query.min, sim.den)

\* the row passes the part-of-speech filter of the call
PassesFilter(e) ==
    IF query.op = "find_similar_words"
    THEN /\ query.pos = "noun" => e.is_noun
         /\ query.pos = "verb" => e.is_verb
    ELSE /\ query.is_noun = "True" => e.is_noun
         /\ query.is_noun = "False" => ~e.is_noun
         /\ query.is_verb = "True" => e.is_verb
         /\ query.is_verb = "False" => ~e.is_verb

\* the candidates of the call that have a similarity of min_similarity or more
Qualifying ==
    {e \in store \ {TargetRow} :
        PassesFilter(e) /\ HasSimilarity(e) /\ AtLeastMin(Cosine(e))}

\* C11: the list find_similar_words or Word.get_similar_words returns does not
\* increase in similarity: of two adjacent items the earlier one's similarity is
\* at least the later one's.
C11_NonIncreasing ==
    IsSearch =>
        \A i \in 1..(Len(result.items) - 1) :
            SignedSq(result.items[i].sim.num, result.items[i + 1].sim.den)
                >= SignedSq(result.items[i + 1].sim.num, result.items[i].sim.den)

\* C11 witness: two items were returned, the first with the strictly greater
\* similarity although its word comes later in the order of the scan
C11_Witness ==
    /\ Answered
    /\ Len(result.items) = 2
    /\ SimGreater(result.items[1].sim, result.items[2].sim)
    /\ WordLess(result.items[2].word.word, result.items[1].word.word)

\* C12: every returned similarity is the candidate's cosine similarity and is at
\* least min_similarity, and a candidate that passes the filter with a similarity
\* of min_similarity or more is missing from the list only when the limit cut it.
C12_MinSimilarity ==
    Answered =>
        /\ \A it \in Items : it.sim = Cosine(it.word) /\ AtLeastMin(it.sim)
        /\ Len(result.items) < query.limit => Qualifying \subseteq ReturnedWords

\* C12 witness: with min_similarity 0.9 and room left under the limit, one
\* candidate was returned and another, whose similarity is lower, was not
C12_Witness ==
    /\ Answered
    /\ query.min = 9
    /\ query.limit = 2
    /\ Len(result.items) = 1
    /\ \E e \in store \ {TargetRow} :
           PassesFilter(e) /\ HasSimilarity(e) /\ ~AtLeastMin(Cosine(e))

\* C13: for a limit K >= 1 the list has min(K, number of qualifying candidates)
\* items, all of them qualifying candidates, and no qualifying candidate left out
\* has a greater similarity than a returned one.
C13_LimitTopK ==
    (Answered /\ query.limit >= 1) =>
        /\ Len(result.items) <= query.limit
        /\ Len(result.items) = IF query.limit < Cardinality(Qualifying)
                               THEN query.limit ELSE Cardinality(Qualifying)
        /\ Cardinality(ReturnedWords) = Len(result.items)
        /\ ReturnedWords \subseteq Qualifying
        /\ \A e \in Qualifying \ ReturnedWords : \A it \in Items :
               ~SimGreater(Cosine(e), it.sim)

\* C13 witness: with limit 1 and two qualifying candidates of different
\* similarity, the one returned is the more similar
C13_Witness ==
    /\ Answered
    /\ query.limit = 1
    /\ Len(result.items) = 1
    /\ Cardinality(Qualifying) = 2
    /\ \E e \in Qualifying \ ReturnedWords : SimGreater(result.items[1].sim, Cosine(e))

\* C14: find_similar_words with the filter 'noun' returns nouns only, with the
\* filter 'verb' verbs only; without a filter no row is left out for its flags:
\* a row with a similarity of min_similarity or more is missing only when the
\* limit cut the list; any other filter value is refused with ValueError.
C14_PartOfSpeechFilter ==
    query.op = "find_similar_words" =>
        /\ query.pos = "noun" => \A it \in Items : it.word.is_noun
        /\ query.pos = "verb" => \A it \in Items : it.word.is_verb
        /\ (Answered /\ query.pos = "none" /\ Len(result.items) < query.limit) =>
               \A e \in store \ {TargetRow} :
                   (HasSimilarity(e) /\ AtLeastMin(Cosine(e))) => e \in ReturnedWords
        /\ query.pos \notin {"none", "noun", "verb"} =>
               result.exc = "ValueError" /\ result.items = <<>>

\* C14 witness: the filter 'noun' returned a noun and left out a row that is no
\* noun and has a similarity of min_similarity or more
C14_Witness ==
    /\ Answered
    /\ query.op = "find_similar_words"
    /\ query.pos = "noun"
    /\ query.limit = 2
    /\ Len(result.items) = 1
    /\ \E e \in store \ {TargetRow} :
           ~e.is_noun /\ HasSimilarity(e) /\ AtLeastMin(Cosine(e))

\* the two similarities are equal
SameSim(s1, s2) == ~SimGreater(s1, s2) /\ ~SimGreater(s2, s1)

\* C21: of two adjacent items of find_similar_words with equal similarity the
\* earlier one has the smaller word, so that the list is the one list of the
\* qualifying candidates that descends in similarity and, among equals, ascends
\* in word, cut at the limit.
C21_TiesAscendingWord ==
    query.op = "find_similar_words" =>
        \A i \in 1..(Len(result.items) - 1) :
            SameSim(result.items[i].sim, result.items[i + 1].sim) =>
                WordLess(result.items[i].word.word, result.items[i + 1].word.word)

\* C21 witness: two candidates of equal similarity and different embeddings
\* were returned
C21_Witness ==
    /\ Answered
    /\ query.op = "find_similar_words"
    /\ Len(result.items) = 2
    /\ SameSim(result.items[1].sim, result.items[2].sim)
    /\ result.items[1].word.embedding # result.items[2].word.embedding

\* every element of the vector is 0
IsZero(v) == \A i \in 1..Len(v) : v[i] = 0

\* C22: calculate_cosine_similarity raises ValueError, and returns no number,
\* when the two vectors differ in length and when one of them is a zero vector;
\* for every other pair it returns their cosine.
C22_StrictComparison ==
    query.op = "calculate_cosine_similarity" =>
        IF Len(query.vec1) # Len(query.vec2) \/ IsZero(query.vec1) \/ IsZero(query.vec2)
        THEN result.exc = "ValueError"
        ELSE /\ result.exc = "none"
             /\ result.sim = Sim(Dot(query.vec1, query.vec2),
                                 Dot(query.vec1, query.vec1) * Dot(query.vec2, query.vec2))

\* C22 witness: the function was called with a vector and the zero vector of its
\* length, and raised
C22_Witness ==
    /\ query.op = "calculate_cosine_similarity"
    /\ query.vec1 = <<1, 0>>
    /\ query.vec2 = <<0, 0>>
    /\ result.exc = "ValueError"

\* the two rows of a call of Word.cosine_similarity
SelfRow == CHOOSE r \in Exact(store, query.target) : TRUE
OtherRow == CHOOSE r \in Exact(store, query.other) : TRUE
IsArray(r) == get_embedding_array(r).exc = "none"

\* C23: for two words whose embeddings are arrays, Word.cosine_similarity raises
\* ValueError when the two differ in length and returns exactly 0.0 when they have
\* one length and one of them is a zero vector.
C23_ModelMethodLenient ==
    (query.op = "cosine_similarity" /\ IsArray(SelfRow) /\ IsArray(OtherRow)) =>
        LET v1 == get_embedding_array(SelfRow).vec
            v2 == get_embedding_array(OtherRow).vec
        IN  /\ Len(v1) # Len(v2) => result.exc = "ValueError"
            /\ (Len(v1) = Len(v2) /\ (IsZero(v1) \/ IsZero(v2))) =>
                   result.exc = "none" /\ result.sim.num = 0

\* C23 witness: a word was compared with a word whose embedding is the zero
\* vector of the same length, and the call returned
C23_Witness ==
    /\ query.op = "cosine_similarity"
    /\ IsArray(SelfRow)
    /\ IsArray(OtherRow)
    /\ ~IsZero(get_embedding_array(SelfRow).vec)
    /\ IsZero(get_embedding_array(OtherRow).vec)
    /\ Len(SelfRow.embedding) = Len(OtherRow.embedding)
    /\ result.exc = "none"

\* the stored embedding is a list of numbers, and the vector it stands for
Numeric(e) ==
    /\ e.embedding # <<>>
    /\ \A i \in 1..Len(e.embedding) : e.embedding[i].t \in {"num", "bool"}
Vec(e) == [i \in 1..Len(e.embedding) |-> e.embedding[i].v]
ZeroNorm(e) == Numeric(e) /\ IsZero(Vec(e))

\* the conversion of the stored embedding raises an exception no loop catches
Overflows(e) == get_embedding_array(e).exc = "OverflowError"

\* a call of find_similar_words for a word of the table with a valid filter
FindCall ==
    /\ query.op = "find_similar_words"
    /\ query.pos \in {"none", "noun", "verb"}
    /\ Exact(store, query.target) # {}

\* the rows the loop of the call visits
Candidates == {e \in store \ {TargetRow} : PassesFilter(e)}

\* C24: find_similar_words raises ValueError when the target's embedding has zero
\* norm; when the target has a norm and no candidate's conversion overflows, the
\* call returns, and no candidate with zero norm is among the results.
C24_ZeroNormTargetRaisesCandidateSkipped ==
    FindCall =>
        /\ ZeroNorm(TargetRow) => result.exc = "ValueError"
        /\ (Numeric(TargetRow) /\ ~ZeroNorm(TargetRow)
                /\ \A c \in Candidates : ~Overflows(c)) =>
               /\ result.exc = "none"
               /\ \A c \in Candidates : ZeroNorm(c) => c \notin ReturnedWords

\* C24 witness: a call whose candidates include one with zero norm, of the
\* target's length, returned another candidate
C24_Witness ==
    /\ FindCall
    /\ result.exc = "none"
    /\ query.min = 0
    /\ \E c \in Candidates : ZeroNorm(c) /\ Len(c.embedding) = Len(TargetRow.embedding)
    /\ Len(result.items) >= 1

\* the stored embedding is empty, holds something that is no number, or has
\* another length than the target's
BadEmbedding(e) ==
    \/ e.embedding = <<>>
    \/ \E i \in 1..Len(e.embedding) : e.embedding[i].t = "str"
    \/ Len(e.embedding) # Len(TargetRow.embedding)

\* C29: a call of find_similar_words whose target has a vector with a norm does
\* not fail whatever the candidates' stored embeddings are; it returns no
\* candidate whose embedding is empty, non-numeric or of another length, and it
\* returns every other candidate that qualifies while the limit is not reached.
C29_BadCandidatesSkipped ==
    (FindCall /\ Numeric(TargetRow) /\ ~ZeroNorm(TargetRow)) =>
        /\ result.exc = "none"
        /\ \A c \in Candidates : BadEmbedding(c) => c \notin ReturnedWords
        /\ Len(result.items) < query.limit => Qualifying \subseteq ReturnedWords

\* the words of a result list, in its order
WordsInOrder(items) == [i \in 1..Len(items) |-> items[i].word.word]

\* the part_of_speech argument that corresponds to the flags of a call of
\* Word.get_similar_words
PosOfFlags ==
    IF query.is_noun = "True" /\ query.is_verb = "None" THEN "noun"
    ELSE IF query.is_noun = "None" /\ query.is_verb = "True" THEN "verb"
    ELSE IF query.is_noun = "None" /\ query.is_verb = "None" THEN "none"
    ELSE "other"

\* C28: a call of Word.get_similar_words with no filter, is_noun=True or
\* is_verb=True ends as find_similar_words ends for the same table, target, limit
\* and min_similarity with the corresponding part_of_speech: both return, and the
\* words of the two lists are the same in the same order.
C28_SameSequenceBothPaths ==
    (query.op = "get_similar_words" /\ PosOfFlags # "other") =>
        LET f == find_similar_words(store, query.target, PosOfFlags, query.limit, query.min)
        IN  /\ f.exc = result.exc
            /\ WordsInOrder(f.items) = WordsInOrder(result.items)

(***************************************************************************)
(* Properties of the endpoints and of the tests' table, under SpecApi.     *)
(***************************************************************************)
\* C15: retrieving a word in any letter case returns the stored row whose word
\* equals it when case is ignored, and answers not-found only when there is no
\* such row.
C15_RetrieveCaseInsensitive ==
    query.op = "retrieve" =>
        /\ IExact(store, query.target) = {} => result.status = 404
        /\ IExact(store, query.target) # {} =>
               /\ result.status = 200
               /\ Len(result.data) = 1
               /\ result.data[1] \in IExact(store, query.target)

\* the parameters of the request that the interface does not admit
InvalidPos == query.params.pos.given /\ query.params.pos.s \notin {S_noun, S_verb}
InvalidLimit ==
    /\ query.params.limit.given
    /\ query.params.limit.s \notin {S_2, S_100}
InvalidMinSimilarity ==
    /\ query.params.min_similarity.given
    /\ query.params.min_similarity.s \notin {S_0_9}

\* C19: a request to the similar endpoint with a pos that is not 'noun' or 'verb',
\* a limit that is no number or lies outside 1..100, or a min_similarity outside
\* 0..1 is answered 400 and find_similar_words is not called; a request with
\* admitted parameters for a word that is not stored is answered 404.
C19_BadParametersBeforeEngine ==
    query.op = "similar" =>
        /\ (InvalidPos \/ InvalidLimit \/ InvalidMinSimilarity) =>
               result.status = 400 /\ ~result.called
        /\ (~InvalidPos /\ ~InvalidLimit /\ ~InvalidMinSimilarity
               /\ Exact(store, query.target) = {}) => result.status = 404

Dog == CHOOSE e \in ApiFixtures : e.word = S_dog
Cat == CHOOSE e \in ApiFixtures : e.word = S_cat
Run == CHOOSE e \in ApiFixtures : e.word = S_run

\* num / sqrt(den) > 0.9
Above09(sim) == SignedSq(10 * sim.num, 1) > SignedSq(9, sim.den)

\* C20: with the table holding dog, cat and run as the tests create them,
\* find_similar_words('dog', limit=2) returns cat and then run, and the similarity
\* of dog and cat, in the list and from Word.cosine_similarity, is above 0.9.
C20_DogCatRun ==
    (/\ query.op = "find_similar_words"
     /\ store = ApiFixtures
     /\ query.target = S_dog
     /\ query.limit = 2
     /\ query.min = 0) =>
        /\ result.exc = "none"
        /\ Len(result.items) = 2
        /\ result.items[1].word = Cat
        /\ result.items[2].word = Run
        /\ Above09(result.items[1].sim)
        /\ cosine_similarity(Dog, Cat).exc = "none"
        /\ Above09(cosine_similarity(Dog, Cat).sim)

\* C20 witness: the call was made on the table of the three words
C20_Witness ==
    /\ query.op = "find_similar_words"
    /\ store = {Dog, Cat, Run}
    /\ query.target = S_dog
    /\ query.pos = "none"
    /\ query.limit = 2
    /\ query.min = 0
    /\ Len(result.items) = 2

(***************************************************************************)
(* Properties of generate_embeddings.py, under SpecAttacher.               *)
(***************************************************************************)
\* C16: for every frame of classified words and every model, the attacher's
\* counts add up, words_skipped + words_with_embeddings = total_words = the rows
\* of the input, and the output has words_with_embeddings rows.
C16_AttacherCounts ==
    attacher.pc = "done" =>
        /\ attacher.stats.total_words = Len(attacher.df)
        /\ attacher.stats.words_skipped + attacher.stats.words_with_embeddings
               = attacher.stats.total_words
        /\ Len(attacher.df_with_embeddings) = attacher.stats.words_with_embeddings

\* C16 witness: a frame with a word of the vocabulary, a word outside it and an
\* empty cell was processed
C16_Witness ==
    /\ attacher.pc = "done"
    /\ attacher.stats.total_words = 3
    /\ attacher.stats.words_with_embeddings = 1
    /\ attacher.stats.words_skipped = 2
    /\ \E i \in 1..3 : attacher.df[i].word = NaN

\* the cell has no vector in the model
NoVector(word) == word.t # "str" \/ word.s \notin DOMAIN attacher.model

\* the cells of the frame without vector, in the order of the frame
Misses == SelectSeq([i \in 1..Len(attacher.df) |-> attacher.df[i].word], NoVector)

\* C17: no word without vector in the model is in the attacher's output, every
\* row of the output has its word's vector as embedding, and the sample of
\* skipped words is the first 10 misses of the input, in the order of the input,
\* or all of them when they are fewer.
C17_OutOfVocabulary ==
    attacher.pc = "done" =>
        /\ \A i \in 1..Len(attacher.df_with_embeddings) :
               LET row == attacher.df_with_embeddings[i]
               IN  /\ ~NoVector(row.word)
                   /\ row.embd.t = "value"
                   /\ row.embd.v = Nums(attacher.model[row.word.s])
        /\ Len(attacher.stats.skipped_words) <= 10
        /\ attacher.stats.skipped_words
               = SubSeq(Misses, 1, IF Len(Misses) < 10 THEN Len(Misses) ELSE 10)

\* C17 witness: a frame of 11 words of two kinds, none of them in the vocabulary,
\* was processed
C17_Witness ==
    /\ attacher.pc = "done"
    /\ Len(Misses) = 11
    /\ Len(attacher.stats.skipped_words) = 10
    /\ Len(attacher.df_with_embeddings) = 0
    /\ \E i, j \in 1..11 : Misses[i] # Misses[j]

(***************************************************************************)
(* Properties of classify_words.py, under SpecClassifier.                  *)
(***************************************************************************)
\* the file is an English noun or verb file
EnglishNounVerb(file) ==
    LET name == parse_filename(file.name)
    IN  name.exc = "none" /\ name.lang = S_en /\ name.pos \in {S_noun, S_verb}

\* the words of the lines of the file
WordsOf(file) ==
    {extract_word_from_line(Strip(file.lines[i])) : i \in 1..Len(file.lines)} \ {<<>>}

\* each word of the English noun and verb files among files, with the pos of
\* every such file it occurs in
LabelSets(files) ==
    LET used == {f \in files : EnglishNounVerb(f)}
    IN  [w \in UNION {WordsOf(f) : f \in used} |->
            {parse_filename(f.name).pos : f \in {g \in used : w \in WordsOf(g)}}]

\* C18: in whatever order the files are visited, the mapping built from the files
\* visited so far, and so the mapping returned, is the one their set determines:
\* each word's label set is the union of the pos of every English noun or verb
\* file in which it occurs.
C18_OrderIndependent ==
    classifier.pc \in {"loop", "done"} =>
        classifier.word_pos_map = LabelSets(classifier.files \ classifier.todo)

\* C18 witness: a directory of four files or more was processed in which a word
\* occurs in a noun file and in a verb file and a file of another language was
\* passed over
C18_Witness ==
    /\ classifier.pc = "done"
    /\ classifier.exc = "none"
    /\ Cardinality(classifier.files) >= 4
    /\ \E w \in DOMAIN classifier.word_pos_map :
           classifier.word_pos_map[w] = {S_noun, S_verb}
    /\ \E f \in classifier.files : f.name = F_noun_fr_3 /\ f.lines # <<>>

\* the words of the records, and the files of the directory with the given
\* part of speech that are English and hold the word
RecordWords == {classifier.records[i].word : i \in 1..Len(classifier.records)}
FilesWith(pos, word) ==
    {f \in classifier.files :
        /\ EnglishNounVerb(f)
        /\ parse_filename(f.name).pos = pos
        /\ word \in WordsOf(f)}

\* C30: when the classifier has made its records, each record has noun or verb
\* 'Y', no two records have one word, the words of the records are the
\* lower-cased words of the English noun and verb files and of no other file, and
\* a record's noun (verb) is 'Y' exactly when an English noun (verb) file holds
\* its word.
C30_RecordsFromEnglishNounVerb ==
    (classifier.pc = "done" /\ classifier.exc = "none") =>
        LET recs == classifier.records
        IN  /\ \A i \in 1..Len(recs) : recs[i].noun = S_Y \/ recs[i].verb = S_Y
            /\ \A i, j \in 1..Len(recs) : recs[i].word = recs[j].word => i = j
            /\ \A i \in 1..Len(recs) : recs[i].word = Lower(recs[i].word)
            /\ RecordWords = UNION {WordsOf(f) : f \in {g \in classifier.files : EnglishNounVerb(g)}}
            /\ \A i \in 1..Len(recs) :
                   /\ recs[i].noun = S_Y <=> FilesWith(S_noun, recs[i].word) # {}
                   /\ recs[i].verb = S_Y <=> FilesWith(S_verb, recs[i].word) # {}

\* C30 witness: the records were made from a directory in which a word stands
\* in a noun file and in a verb file, and a file of another language or part of
\* speech holds a word that got no record
C30_Witness ==
    /\ classifier.pc = "done"
    /\ classifier.exc = "none"
    /\ \E i \in 1..Len(classifier.records) :
           classifier.records[i].noun = S_Y /\ classifier.records[i].verb = S_Y
    /\ \E f \in classifier.files :
           ~EnglishNounVerb(f) /\ \E w \in WordsOf(f) : w \notin RecordWords

(***************************************************************************)
(* Properties of the loadwords command, under Spec.                        *)
(***************************************************************************)
\* the run has read its file: read_csv_file returned or raised
FileRead == pc = "loading" \/ (pc = "done" /\ outcome \notin {"none", "cancelled"})

\* the rows a reader that skips every bad row hands to the loader, up to the limit
RECURSIVE ValidData(_)
ValidData(rs) ==
    IF rs = <<>> THEN <<>>
    ELSE LET p == parse_csv_row(Head(rs))
         IN  (IF p.err = "none" THEN <<p.data>> ELSE <<>>) \o ValidData(Tail(rs))

UpToLimit(ws, limit) == IF limit # 0 /\ limit < Len(ws) THEN SubSeq(ws, 1, limit) ELSE ws

GoodEmbedding(emb) ==
    /\ emb # <<>>
    /\ \A i \in 1..Len(emb) : emb[i].t \in {"num", "bool"}

\* C3: every stored word is lower-case and no two stored words are equal when
\* case is ignored.
C3_StoredLowerCaseUnique ==
    /\ \A e \in store : e.word = Lower(e.word)
    /\ \A e, f \in store : Lower(e.word) = Lower(f.word) => e = f

\* C4: an upsert in apply mode leaves exactly one row of the word, holding the
\* record's flags and embedding; it counts as created and adds one row when the
\* word was not stored, and counts as updated and adds no row when the word was
\* stored already, as it is from the second load of a word on.
C4_UpsertIdempotent ==
    [][(pc = "loading" /\ ~opts.dry_run /\ idx' = idx + 1 /\ stats'.errors = stats.errors) =>
        LET d == words_data[idx]
        IN  /\ Cardinality({e \in store' : e.word = d.word}) = 1
            /\ \A e \in store' : e.word = d.word =>
                   /\ e.is_noun = d.is_noun
                   /\ e.is_verb = d.is_verb
                   /\ e.embedding = d.embedding
            /\ IF \E e \in store : e.word = d.word
               THEN /\ stats' = [stats EXCEPT !.updated = @ + 1]
                    /\ Cardinality(store') = Cardinality(store)
               ELSE /\ stats' = [stats EXCEPT !.created = @ + 1]
                    /\ Cardinality(store') = Cardinality(store) + 1]_vars

\* C4 witness: an input with the same new word twice, with different flags and
\* embeddings, was loaded: one created, one updated, one row, the second record's
C4_Witness ==
    /\ outcome = "ok"
    /\ ~opts.dry_run
    /\ Len(words_data) = 2
    /\ words_data[1].word = words_data[2].word
    /\ words_data[1] # words_data[2]
    /\ stats = [created |-> 1, updated |-> 1, errors |-> 0]
    /\ Exact(store, words_data[2].word) = {NewWord(words_data[2])}
    /\ Cardinality(store) = Cardinality(store0) + 1

\* C5: a dry run changes nothing in the table, whatever the input, the table and
\* the other options: at every point of the run the table is the one the run found.
C5_DryRunFrame == opts.dry_run => store = store0

\* C5 witness: a dry run with --clear over a table that is not empty went through
\* records it would create and records it would update
C5_Witness ==
    /\ opts.dry_run
    /\ opts.clear
    /\ outcome = "ok"
    /\ store0 # {}
    /\ stats.created > 0
    /\ stats.updated > 0

\* C6: no bad row and no failing upsert ends the batch: the loader is handed every
\* valid row of the input (up to the limit), whatever rows stand before it, and
\* a run that was not interrupted has gone through all of them.
C6_NoRecordAbortsBatch ==
    FileRead =>
        /\ words_data = UpToLimit(ValidData(rows), opts.limit)
        /\ (pc = "done" /\ outcome # "KeyboardInterrupt") => idx = Len(words_data) + 1

Cleared == pc = "read" /\ store0 # {} /\ store = {}

\* C8: the table is cleared only when --clear was given, the run is no dry run and
\* the answer is 'yes'; without --clear no row is deleted; a declined clear ends
\* the run with the table as it was and nothing loaded.
C8_ClearOnlyOnYes ==
    /\ Cleared => (opts.clear /\ ~opts.dry_run /\ opts.confirm = S_yes)
    /\ ~opts.clear => \A e \in store0 : \E f \in store : f.word = e.word
    /\ outcome = "cancelled" =>
           (pc = "done" /\ store = store0 /\ words_data = <<>> /\ stats = ZeroStats)

\* C8, amended: as C8, the answer being 'yes' in any letter case.
C8_ClearOnlyOnYesAnyCase ==
    /\ Cleared => (opts.clear /\ ~opts.dry_run /\ Lower(opts.confirm) = S_yes)
    /\ ~opts.clear => \A e \in store0 : \E f \in store : f.word = e.word
    /\ outcome = "cancelled" =>
           (pc = "done" /\ store = store0 /\ words_data = <<>> /\ stats = ZeroStats)

\* C8 witness: a table that was not empty has been cleared on the answer 'yes'
C8_Witness == Cleared /\ opts.confirm = S_yes

\* C9: every run that went through the rows of its input, rows that failed or
\* not, has written the summary, and the summary gives the counters of the run.
C9_SummaryAlways ==
    (pc = "done" /\ outcome \in {"ok", "no_valid_words"} /\ rows # <<>>) =>
        /\ report.printed
        /\ report.errors = stats.errors


\* the table after the upserts of the records, in their order, and the counts
\* load_words_batch reports for them in apply mode
RECURSIVE ApplyAll(_, _)
ApplyAll(s, recs) ==
    IF recs = <<>> THEN s
    ELSE ApplyAll(update_or_create(s, Head(recs)).store, Tail(recs))

RECURSIVE ApplyCounts(_, _)
ApplyCounts(s, recs) ==
    IF recs = <<>> THEN [created |-> 0, updated |-> 0]
    ELSE LET u == update_or_create(s, Head(recs))
             c == ApplyCounts(u.store, Tail(recs))
         IN  IF u.created THEN [c EXCEPT !.created = @ + 1]
             ELSE [c EXCEPT !.updated = @ + 1]

\* the table the loop of the run started from, the records it has gone through,
\* and whether one of them raised
Base == IF ClearConfirmed(opts) THEN {} ELSE store0
Processed == SubSeq(words_data, 1, idx - 1)
NoneRaised == stats.created + stats.updated = idx - 1

\* C25: after a KeyboardInterrupt in an apply run every row the run created is
\* still in the table, and when no upsert raised the table is exactly the one
\* the upserts of the first k records made: none is rolled back and no later
\* record is applied.
C25_InterruptKeepsUpserts ==
    (outcome = "KeyboardInterrupt" /\ ~opts.dry_run) =>
        /\ idx <= Len(words_data)
        /\ Cardinality(store) = Cardinality(Base) + stats.created
        /\ NoneRaised => store = ApplyAll(Base, Processed)

\* C25 witness: a run over two records was interrupted after the first, which it
\* had created
C25_Witness ==
    /\ outcome = "KeyboardInterrupt"
    /\ ~opts.dry_run
    /\ Len(words_data) = 2
    /\ idx = 2
    /\ stats.created = 1
    /\ store # store0
    /\ Exact(store, words_data[1].word) # {}

\* C26: the created and updated counts of a dry run are the counts an apply run
\* reports for the same table and the same records, also when a word is in the
\* records more than once.
C26_DryRunCountsAsApply ==
    (opts.dry_run /\ pc \in {"loading", "done"} /\ idx >= 1 /\ NoneRaised) =>
        /\ stats.created = ApplyCounts(store0, Processed).created
        /\ stats.updated = ApplyCounts(store0, Processed).updated

\* C27: a run that fails on its CSV file (missing, or without the headers) leaves
\* the table as the run found it, whatever the options.
C27_FailedReadLeavesStore == outcome = "CommandError" => store = store0

====
